---- MODULE Spec2Model ----
(***************************************************************************)
(* A model of the Harvest Right connection-resilience layer:               *)
(*   api.py          HarvestRightApi      (token store / auth client)      *)
(*   mqtt_client.py  HarvestRightMqttClient (persistent session)           *)
(*   coordinator.py  HarvestRightCoordinator (setup, router, watchdog,     *)
(*                   token refresh loop, connect-failure recovery)         *)
(* Coroutines run on one event loop and are atomic between awaits;         *)
(* executor jobs (async_add_executor_job) and paho's network thread run    *)
(* concurrently with it, so their code is modelled statement by statement. *)
(***************************************************************************)
EXTENDS Integers, Sequences, FiniteSets, TLC

\* ------------------------------------------------------------- bounds
\* Seconds in one step of the model clock.
Quantum == 300
\* The clock stops after this many steps.
MaxQuanta == 5
\* The same, for the runs with every executor thread interleaved.
ConcQuanta == 5
\* Credentials the auth service issues in one run.
MaxTokens == 2
\* Inbound frames delivered in one run.
MaxFrames == 2
\* Lifetimes (seconds) the auth service gives a credential.
ShortTTL == 660
LongTTL == 3600
\* The clock steps of the runs in which the watchdog reconnects twice.
WatchQuanta == 8
\* Credentials the auth service issues in the runs with a broker that
\* rejects every handshake.
RejectTokens == 4
\* Calls of force_reconnect in the runs that call it with every argument.
MaxReconnects == 2
\* The refresh loop's sleep is computed for refreshAfter - now running
\* from -SleepBelow * SleepStep to SleepAbove * SleepStep seconds.
SleepStep == 30
SleepBelow == 4
SleepAbove == 130

\* -------------------------------------------------- program constants
_WATCHDOG_CHECK_INTERVAL == 120
_WATCHDOG_STALE_THRESHOLD == 600
_WATCHDOG_DEAD_THRESHOLD == 900
\* asyncio.sleep(300) after a failed refresh iteration
REFRESH_COOLDOWN == 300
\* max(60, ...), "- 60" and min(3600, ...) of the refresh loop's sleep
MIN_WAIT == 60
REFRESH_EARLY == 60
MAX_WAIT == 3600

\* Python's None for tokens, ids and client handles.
None == 0

SUBSCRIBE_MSG_TYPES == {"telemetry", "system", "name-update"}

\* The account the auth service answers for and the dryers it may list.
Account == [customerId |-> 42, userId |-> 9]
DeviceIds == {7}

VARIABLES
    now,                  \* time.time() / time.monotonic(), in seconds
    api,                  \* HarvestRightApi fields
    issued,               \* auth service: credentials issued so far
    http,                 \* per task: the REST request it awaits
    mqtt,                 \* HarvestRightMqttClient fields
    clients,              \* the paho client objects ever created
    dryer_data,           \* HarvestRightCoordinator.dryer_data
    telemetry_requested,  \* HarvestRightCoordinator._telemetry_requested
    signals,              \* async_dispatcher_send calls per device
    tele_last,            \* per device: the last telemetry value of each field
    inbox,                \* _async_handle_message tasks not yet run
    nframes,              \* frames delivered so far
    setup,                \* async_setup
    wd,                   \* _async_watchdog_loop
    rl,                   \* _async_token_refresh_loop
    cf,                   \* _async_refresh_and_reconnect
    jobs,                 \* executor jobs, by the task that awaits them
    shutdown              \* async_shutdown

vars == <<now, api, issued, http, mqtt, clients, dryer_data,
          telemetry_requested, signals, tele_last, inbox, nframes, setup, wd, rl, cf, jobs,
          shutdown>>

CfSlots == {"cf"}
Tasks == {"setup", "wd", "rl"} \cup CfSlots

MaxTime == Quantum * MaxQuanta

Max(a, b) == IF a >= b THEN a ELSE b
Min(a, b) == IF a <= b THEN a ELSE b

TTLs == {ShortTTL, LongTTL}

\* ================================================================ api.py

\* The token envelope of POST /auth/v1 and /auth/v1/refresh-token.
AuthKeys == <<"accessToken", "refreshToken", "refreshAfter", "customerId", "userId">>
AuthAttr == [accessToken |-> "access_token", refreshToken |-> "refresh_token",
             refreshAfter |-> "refresh_after", customerId |-> "customer_id",
             userId |-> "user_id"]

AuthResponse(serial, ttl) ==
    [accessToken |-> serial, refreshToken |-> serial, refreshAfter |-> now + ttl,
     customerId |-> Account.customerId, userId |-> Account.userId]

\* _store_auth assigns the five attributes in order; data[k] of a missing
\* key raises KeyError and leaves the later attributes as they were.
RECURSIVE StoreFrom(_, _, _)
StoreFrom(a, data, i) ==
    IF i > Len(AuthKeys) \/ AuthKeys[i] \notin DOMAIN data
    THEN a
    ELSE StoreFrom([a EXCEPT ![AuthAttr[AuthKeys[i]]] = data[AuthKeys[i]]], data, i + 1)

_store_auth(a, data) == StoreFrom(a, data, 1)

\* ensure_valid_token: time.time() >= self._refresh_after
TokenIsStale(a) == now >= a.refresh_after

\* refresh_token(): without a refresh token it is login(), else the
\* refresh request; the value is the request the caller now awaits.
refresh_token(a) == IF a.refresh_token = None THEN "login" ELSE "refresh"

\* Variant: the token is refreshed whatever refresh_after says.
ensure_valid_token_always(a) == refresh_token(a)

\* ensure_valid_token(): the request awaited, "none" when it returns at once.
ensure_valid_token(a) == IF TokenIsStale(a) THEN refresh_token(a) ELSE "none"

\* What task t awaits from the REST service, and the requests its current
\* call into the API client has sent so far.
Call(req) ==
    [req |-> req,
     refreshes |-> IF req = "refresh" THEN 1 ELSE 0,
     logins |-> IF req = "login" THEN 1 ELSE 0]
\* The request req has been answered.
Answered(h, t) == [h EXCEPT ![t].req = "none"]
\* Variant: the failed refresh is over without a login.
FallBackNone(h, t) == [h EXCEPT ![t].req = "none"]

\* refresh_token falls back to login().
FallBack(h, t) == [h EXCEPT ![t].req = "login", ![t].logins = @ + 1]

LoginOutcomes == {"ok", "client_error", "401", "non200", "error_field"}
RefreshOutcomes == {"ok", "client_error", "non200", "error_field"}
DryerOutcomes == {"ok", "client_error", "401", "non200"}

\* The exception login() raises for a failed outcome.
LoginError(out) ==
    IF out \in {"401", "error_field"} THEN "HarvestRightAuthError"
    ELSE "HarvestRightApiError"

\* ======================================================= dictionaries
\* A Python dict is a function on its keys; a scalar value v is wrapped
\* so that it can be compared with a nested dict.
EmptyDict == [k \in {} |-> None]
Scalar(v) == [scalar |-> v]
\* d[k] = v
DictPut(d, k, v) == [x \in DOMAIN d \cup {k} |-> IF x = k THEN v ELSE d[x]]
\* d.update(p)
DictUpdate(d, p) == [x \in DOMAIN d \cup DOMAIN p |-> IF x \in DOMAIN p THEN p[x] ELSE d[x]]

\* str() and int() on the ids that occur in topics.
StrOf(n) == CASE n = 7 -> "7" [] n = 8 -> "8" [] n = 42 -> "42" [] OTHER -> "0"
IsInt(s) == s \in {"7", "8", "42"}
IntOf(s) == CASE s = "7" -> 7 [] s = "8" -> 8 [] s = "42" -> 42 [] OTHER -> 0

\* ==================================================== paho.mqtt.client
\* A client object: the password it was configured with, whether its
\* network thread runs, its connection, its subscriptions, and the
\* client-initiated operations on the connection since its CONNACK.
NewClient(pw) ==
    [password |-> pw, loop |-> FALSE, conn |-> "new", subs |-> {}, acts |-> <<>>]

loop_start(cs, c) == [cs EXCEPT ![c].loop = TRUE]
loop_stop(cs, c) == [cs EXCEPT ![c].loop = FALSE]
connect_async(cs, c) == [cs EXCEPT ![c].conn = "connecting"]
client_disconnect(cs, c) ==
    [cs EXCEPT ![c].conn = "closed",
               ![c].acts = IF cs[c].conn = "connected"
                           THEN Append(cs[c].acts, "disconnect") ELSE cs[c].acts]
\* subscribe / publish reach the broker only on an open connection.
client_subscribe(cs, c, topic) ==
    IF cs[c].conn = "connected"
    THEN [cs EXCEPT ![c].subs = @ \cup {topic}, ![c].acts = Append(@, "subscribe")]
    ELSE cs
client_publish(cs, c, what) ==
    IF cs[c].conn = "connected"
    THEN [cs EXCEPT ![c].acts = Append(@, what)]
    ELSE cs

\* A client with a running network thread and a connection in progress or open.
Live(cs, c) == cs[c].loop /\ cs[c].conn \in {"connecting", "connected"}
LiveClients(cs) == {c \in DOMAIN cs : Live(cs, c)}

\* ======================================================== mqtt_client.py
DryerTopic(cust, dryer_id, msg_type) ==
    <<"act", StrOf(cust), "ed", StrOf(dryer_id), "m", msg_type>>
OnlineTopic(cust) == <<"act", StrOf(cust), "on">>

\* The attributes class HarvestRightMqttClient defines.
MqttClientAttrs ==
    {"last_message_time", "set_on_connect_fail", "is_connected", "connect",
     "disconnect", "subscribe_dryer", "publish_online", "update_token",
     "force_reconnect"}

\* A client object nothing refers to any more: no thread runs it and
\* self._client has been rebound.
Freed == [NewClient(None) EXCEPT !.conn = "freed"]

\* _init_client: a new paho client with the session's current token; the
\* object self._client referred to before is dropped, and freed unless its
\* network thread still runs.
_init_client_clients(m, cs) ==
    LET old == m.client
        kept == IF old # None /\ ~cs[old].loop THEN [cs EXCEPT ![old] = Freed] ELSE cs
    IN Append(kept, NewClient(m.access_token))
_init_client_mqtt(m, cs) == [m EXCEPT !.client = Len(cs) + 1]

\* _subscribe_dryer_topics for every registered dryer, on self._client.
RECURSIVE SubscribeTopics(_, _, _)
SubscribeTopics(cs, c, topics) ==
    IF topics = {} THEN cs
    ELSE LET t == CHOOSE x \in topics : TRUE
         IN SubscribeTopics(client_subscribe(cs, c, t), c, topics \ {t})

RegisteredTopics(m) ==
    {DryerTopic(m.customer_id, d, ty) : d \in m.subscribed_dryers, ty \in SUBSCRIBE_MSG_TYPES}

\* Variant: the callback subscribes and publishes nothing.
on_connect_ok_silent(m, cs, c) ==
    LET cs1 == [cs EXCEPT ![c].conn = "connected", ![c].acts = <<>>, ![c].subs = {}]
    IN SubscribeTopics(cs1, m.client, RegisteredTopics(m))

\* _on_connect with rc == 0, on client c.
on_connect_ok_clients(m, cs, c) ==
    LET cs1 == [cs EXCEPT ![c].conn = "connected", ![c].acts = <<>>, ![c].subs = {}]
        cs2 == SubscribeTopics(cs1, m.client, RegisteredTopics(m))
    IN client_publish(cs2, c, "publish_on")

\* _on_mqtt_message: what is handed to self._on_message, if anything.
EndsWithOn(topic) == Len(topic) >= 2 /\ topic[Len(topic)] = "on"
Routed(f) ==
    /\ ~EndsWithOn(f.topic)
    /\ f.json_ok
    /\ Len(f.topic) >= 6 /\ f.topic[3] = "ed" /\ f.topic[5] = "m"
    /\ IsInt(f.topic[4])
RoutedMessage(f) ==
    [dryer_id |-> IntOf(f.topic[4]), msg_type |-> f.topic[6], payload |-> f.payload]

\* ======================================================== coordinator.py
\* _async_handle_message: the merge policy.
IsRouted(dd, msg) ==
    /\ msg.dryer_id \in DOMAIN dd
    /\ msg.msg_type \in {"telemetry", "system", "name-update"}
\* Variant: a message of an unknown kind is stored under its kind.
MergeUnknownKind(dd, msg) ==
    IF msg.dryer_id \notin DOMAIN dd THEN dd
    ELSE LET d == msg.dryer_id
         IN CASE msg.msg_type = "telemetry" ->
                   [dd EXCEPT ![d] = DictUpdate(@, msg.payload)]
              [] msg.msg_type = "system" ->
                   [dd EXCEPT ![d] = DictPut(@, "system", msg.payload)]
              [] msg.msg_type = "name-update" ->
                   [dd EXCEPT ![d] = DictPut(@, "name_update", msg.payload)]
              [] OTHER ->
                   [dd EXCEPT ![d] = DictPut(@, msg.msg_type, msg.payload)]

Merge(dd, msg) ==
    IF ~IsRouted(dd, msg) THEN dd
    ELSE LET d == msg.dryer_id
         IN CASE msg.msg_type = "telemetry" ->
                   [dd EXCEPT ![d] = DictUpdate(@, msg.payload)]
              [] msg.msg_type = "system" ->
                   [dd EXCEPT ![d] = DictPut(@, "system", msg.payload)]
              [] msg.msg_type = "name-update" ->
                   [dd EXCEPT ![d] = DictPut(@, "name_update", msg.payload)]

\* ====================================================== binary_sensor.py
FREEZING_SCREENS == {4}
RUNNING_SCREENS == {1, 2, 3, 4, 5, 6, 7, 18}
\* Python's None as a dict value.
PyNone == [none |-> TRUE]

\* _get_screen: data.get("screen")
_get_screen(data) == IF "screen" \in DOMAIN data THEN data["screen"] ELSE PyNone

\* Variant: the freezing sensor tests the running screens.
freezing_is_on_running(data) ==
    IF _get_screen(data) # PyNone
    THEN IF _get_screen(data) \in {Scalar(x) : x \in RUNNING_SCREENS} THEN "True" ELSE "False"
    ELSE "None"

\* is_on_fn of the freezing sensor (lines 61-65): True, False or None.
freezing_is_on(data) ==
    IF _get_screen(data) # PyNone
    THEN IF _get_screen(data) \in {Scalar(x) : x \in FREEZING_SCREENS} THEN "True" ELSE "False"
    ELSE "None"

\* HarvestRightBinarySensor.is_on of the freezing sensor of dryer d.
is_on(dd, d) == freezing_is_on(IF d \in DOMAIN dd THEN dd[d] ELSE EmptyDict)

\* ======================================================== coordinator.py
\* Variant: the sleep without the outer max(60, ...).
RefreshSleepNoFloor(refresh_after, t) ==
    LET seconds_until_refresh == Max(MIN_WAIT, refresh_after - t)
    IN Min(MAX_WAIT, seconds_until_refresh - REFRESH_EARLY)

\* The refresh loop's sleep: lines 104-109.
RefreshSleep(refresh_after, t) ==
    LET seconds_until_refresh == Max(MIN_WAIT, refresh_after - t)
        wait_time == Min(MAX_WAIT, seconds_until_refresh - REFRESH_EARLY)
    IN Max(MIN_WAIT, wait_time)

\* ============================================================== state
authv == <<api, issued, http>>
sessv == <<mqtt, clients>>
routev == <<dryer_data, signals, tele_last, inbox, nframes>>
taskv == <<setup, wd, rl, cf, shutdown>>

\* An executor job: where it is, its argument, the instant it reset the
\* last-message clock, how often it entered force_reconnect, and the
\* number of client objects that existed when it was submitted.
IdleJob == [pc |-> "idle", new_token |-> None, clock_at |-> 0, calls |-> 0, base |-> 0]

Init ==
    /\ now = Quantum
    /\ api = [access_token |-> None, refresh_token |-> None, refresh_after |-> 0,
              customer_id |-> None, user_id |-> None]
    /\ issued = 0
    /\ http = [t \in Tasks |-> Call("none")]
    /\ mqtt = [created |-> FALSE, customer_id |-> None, access_token |-> None,
               subscribed_dryers |-> {}, last_message_time |-> 0,
               on_connect_fail |-> FALSE, client |-> None]
    /\ clients = <<>>
    /\ dryer_data = EmptyDict
    /\ telemetry_requested = FALSE
    /\ signals = EmptyDict
    /\ tele_last = EmptyDict
    /\ inbox = <<>>
    /\ nframes = 0
    /\ setup = [pc |-> "new", exc |-> "", todo |-> {}]
    /\ wd = [pc |-> "none", wake |-> 0, last_msg |-> 0, silence |-> 0, frames |-> 0,
             log |-> "", exc |-> "", validated |-> "", reset_at |-> 0]
    /\ rl = [pc |-> "none", wake |-> 0, log |-> "", exc |-> ""]
    /\ cf = [s \in CfSlots |-> [pc |-> "idle", log |-> ""]]
    /\ jobs = [t \in Tasks |-> IdleJob]
    /\ shutdown = [pc |-> "idle", i |-> 1]

\* The clock moves on; every sleeping task may wake late.  One step of the
\* clock is longer than async_setup takes, so setup sees one instant.
AdvanceWithin(limit) ==
    /\ setup.pc \in {"done", "failed"}
    /\ now + Quantum <= limit
    /\ now' = now + Quantum
    /\ UNCHANGED <<authv, sessv, routev, telemetry_requested, taskv, jobs>>

Advance == AdvanceWithin(MaxTime)

\* No request is awaited and no executor job runs.
Quiescent ==
    /\ \A t \in Tasks : http[t].req = "none" /\ jobs[t].pc = "idle"
    /\ \A s \in CfSlots : cf[s].pc = "idle"

\* The clock moves on between bursts of activity: a request or a job takes
\* less than one step of the clock.
AdvanceQuiet ==
    /\ Quiescent
    /\ AdvanceWithin(Quantum * ConcQuanta)

\* Variant: the job is given the token the session already uses.
SubmitForceReconnectOld(t, token) ==
    [jobs EXCEPT ![t] = [IdleJob EXCEPT !.pc = "fr_token", !.new_token = mqtt.access_token,
                                        !.calls = 1, !.base = Len(clients)]]

\* async_add_executor_job(self.mqtt.force_reconnect, token)
SubmitForceReconnect(t, token) ==
    [jobs EXCEPT ![t] = [IdleJob EXCEPT !.pc = "fr_token", !.new_token = token,
                                        !.calls = 1, !.base = Len(clients)]]
\* async_add_executor_job(self.mqtt.update_token, token)
SubmitUpdateToken(t, token) ==
    [jobs EXCEPT ![t] = [IdleJob EXCEPT !.pc = "ut_check", !.new_token = token,
                                        !.base = Len(clients)]]

\* ------------------------------------------------------- async_setup
\* line 38: await self.api.login()
SetupStart ==
    /\ setup.pc = "new"
    /\ setup' = [setup EXCEPT !.pc = "login"]
    /\ http' = [http EXCEPT !["setup"] = Call("login")]
    /\ UNCHANGED <<now, api, issued, sessv, routev, telemetry_requested, wd, rl, cf, jobs, shutdown>>

\* Variant: setup goes on to get_freeze_dryers whatever login() did.
SetupResumeRegardless(res, a, h) ==
    /\ setup' = [setup EXCEPT !.pc = IF setup.pc = "dryers_refresh"
                                     THEN "dryers_get2" ELSE "dryers_get"]
    /\ http' = [h EXCEPT !["setup"] = Call("get_dryers")]
    /\ UNCHANGED <<now, sessv, routev, telemetry_requested, wd, rl, cf, jobs, shutdown>>

\* login() or a refresh inside get_freeze_dryers returned or raised.
SetupResume(res, a, h) ==
    /\ IF res # "ok"
       THEN /\ setup' = [setup EXCEPT !.pc = "failed", !.exc = res]
            /\ http' = h
       ELSE IF setup.pc = "login" /\ ensure_valid_token(a) # "none"
       THEN /\ setup' = [setup EXCEPT !.pc = "dryers_validate"]
            /\ http' = [h EXCEPT !["setup"] = Call(ensure_valid_token(a))]
       ELSE /\ setup' = [setup EXCEPT !.pc = IF setup.pc = "dryers_refresh"
                                              THEN "dryers_get2" ELSE "dryers_get"]
            /\ http' = [h EXCEPT !["setup"] = Call("get_dryers")]
    /\ UNCHANGED <<now, sessv, routev, telemetry_requested, wd, rl, cf, jobs, shutdown>>

\* get_freeze_dryers: the GET /freeze-dryer/v1 answered; on success lines
\* 39-48 build the session and start connect() on the executor.
DryersResponse(out) ==
    /\ http["setup"].req = "get_dryers"
    /\ setup.pc \in {"dryers_get", "dryers_get2"}
    /\ IF out = "ok"
       THEN \E ds \in SUBSET DeviceIds :
              /\ setup' = [setup EXCEPT !.pc = "connect", !.todo = ds]
              /\ http' = Answered(http, "setup")
              /\ mqtt' = [mqtt EXCEPT !.created = TRUE,
                                      !.customer_id = api.customer_id,
                                      !.access_token = api.access_token]
              /\ jobs' = [jobs EXCEPT !["setup"] = [IdleJob EXCEPT !.pc = "cs_init"]]
       ELSE IF out = "401" /\ setup.pc = "dryers_get"
       THEN /\ setup' = [setup EXCEPT !.pc = "dryers_refresh"]
            /\ http' = [http EXCEPT !["setup"] = Call(refresh_token(api))]
            /\ UNCHANGED <<mqtt, jobs>>
       ELSE /\ setup' = [setup EXCEPT !.pc = "failed", !.exc = "HarvestRightApiError"]
            /\ http' = Answered(http, "setup")
            /\ UNCHANGED <<mqtt, jobs>>
    /\ UNCHANGED <<now, api, issued, clients, routev, telemetry_requested, wd, rl, cf, shutdown>>

\* connect() returned: line 49, set_on_connect_fail.
SetupRegister ==
    /\ setup.pc = "connect" /\ jobs["setup"].pc = "done"
    /\ jobs' = [jobs EXCEPT !["setup"] = IdleJob]
    /\ mqtt' = [mqtt EXCEPT !.on_connect_fail = TRUE]
    /\ setup' = [setup EXCEPT !.pc = "subscribe"]
    /\ UNCHANGED <<now, authv, clients, routev, telemetry_requested, wd, rl, cf, shutdown>>

\* lines 51-54, one dryer: subscribe_dryer and an empty DeviceState.
SetupSubscribe ==
    /\ setup.pc = "subscribe" /\ setup.todo # {}
    /\ LET d == CHOOSE x \in setup.todo : \A y \in setup.todo : x <= y
       IN /\ mqtt' = [mqtt EXCEPT !.subscribed_dryers = @ \cup {d}]
          /\ dryer_data' = DictPut(dryer_data, d, EmptyDict)
          /\ signals' = DictPut(signals, d, 0)
          /\ tele_last' = DictPut(tele_last, d, EmptyDict)
          /\ setup' = [setup EXCEPT !.todo = @ \ {d}]
    /\ UNCHANGED <<now, authv, clients, inbox, nframes, telemetry_requested, wd, rl, cf, jobs, shutdown>>

\* lines 56-63: both background tasks start and go to sleep.
SetupStartTasks ==
    /\ setup.pc = "subscribe" /\ setup.todo = {}
    /\ setup' = [setup EXCEPT !.pc = "done"]
    /\ wd' = [wd EXCEPT !.pc = "sleep", !.wake = now + _WATCHDOG_CHECK_INTERVAL]
    /\ rl' = [rl EXCEPT !.pc = "sleep", !.wake = now + RefreshSleep(api.refresh_after, now)]
    /\ UNCHANGED <<now, authv, sessv, routev, telemetry_requested, cf, jobs, shutdown>>

\* ------------------------------------------------ _async_watchdog_loop
\* Variant: silence never escalates beyond the nudge.
WatchdogBranchNoDead(last_msg, silence, requested) ==
    IF last_msg = 0 THEN "skip"
    ELSE IF silence >= _WATCHDOG_STALE_THRESHOLD /\ ~requested THEN "stale"
    ELSE IF silence < _WATCHDOG_STALE_THRESHOLD THEN "clear"
    ELSE "hold"

\* The branch a tick takes on what it read (lines 133-160).
WatchdogBranch(last_msg, silence, requested) ==
    IF last_msg = 0 THEN "skip"
    ELSE IF silence >= _WATCHDOG_DEAD_THRESHOLD THEN "dead"
    ELSE IF silence >= _WATCHDOG_STALE_THRESHOLD /\ ~requested THEN "stale"
    ELSE IF silence < _WATCHDOG_STALE_THRESHOLD THEN "clear"
    ELSE "hold"

\* One tick: asyncio.sleep(120) is over, lines 129-160 run up to the
\* first await that suspends.  With noting, the tick also notes how many
\* frames had arrived when it read the clock.
WdTickNoting(noting) ==
    /\ wd.pc = "sleep" /\ now >= wd.wake
    /\ mqtt.created
    /\ LET last_msg == mqtt.last_message_time
           silence == now - last_msg
           branch == WatchdogBranch(last_msg, silence, telemetry_requested)
           \* last_msg and silence are read again only on the dead branch
           seen == [wd EXCEPT !.last_msg = IF branch = "dead" THEN last_msg ELSE 0,
                              !.frames = IF noting /\ branch = "dead" THEN nframes ELSE 0,
                              !.silence = IF branch = "dead" THEN silence ELSE 0,
                              !.validated = "", !.exc = ""]
           again == now + _WATCHDOG_CHECK_INTERVAL
       IN CASE branch = "skip" ->
                 /\ wd' = [seen EXCEPT !.wake = again, !.log = "skip"]
                 /\ UNCHANGED <<telemetry_requested, http, jobs>>
            [] branch = "dead" ->
                 /\ telemetry_requested' = FALSE
                 /\ IF ensure_valid_token(api) = "none"
                    THEN /\ wd' = [seen EXCEPT !.pc = "job", !.log = "forcing reconnect",
                                               !.validated = "valid"]
                         /\ jobs' = SubmitForceReconnect("wd", api.access_token)
                         /\ http' = [http EXCEPT !["wd"] = Call("none")]
                    ELSE /\ wd' = [seen EXCEPT !.pc = "validate", !.log = "forcing reconnect",
                                               !.validated = "refresh"]
                         /\ http' = [http EXCEPT !["wd"] = Call(ensure_valid_token(api))]
                         /\ UNCHANGED jobs
            [] branch = "stale" ->
                 \* self.mqtt.request_telemetry: the attribute lookup raises
                 \* AttributeError for the first dryer of dryer_data
                 /\ telemetry_requested' = TRUE
                 /\ wd' = [seen EXCEPT !.wake = again,
                             !.log = "requesting telemetry refresh",
                             !.exc = IF DOMAIN dryer_data = {} \/ "request_telemetry" \in MqttClientAttrs
                                     THEN "" ELSE "AttributeError"]
                 /\ UNCHANGED <<http, jobs>>
            [] branch = "clear" ->
                 /\ telemetry_requested' = FALSE
                 /\ wd' = [seen EXCEPT !.wake = again, !.log = "clear"]
                 /\ UNCHANGED <<http, jobs>>
            [] branch = "hold" ->
                 /\ wd' = [seen EXCEPT !.wake = again, !.log = "hold"]
                 /\ UNCHANGED <<telemetry_requested, http, jobs>>
    /\ UNCHANGED <<now, api, issued, sessv, routev, setup, rl, cf, shutdown>>

WdTick == WdTickNoting(FALSE)

\* Variant: an exception of the validation ends the watchdog loop.
WdResumeEnds(res, a, h) ==
    /\ http' = h
    /\ IF res = "ok"
       THEN /\ wd' = [wd EXCEPT !.pc = "job"]
            /\ jobs' = SubmitForceReconnect("wd", a.access_token)
       ELSE /\ wd' = [wd EXCEPT !.pc = "ended", !.exc = res]
            /\ UNCHANGED jobs
    /\ UNCHANGED <<now, sessv, routev, telemetry_requested, setup, rl, cf, shutdown>>

\* ensure_valid_token returned (line 146 follows) or raised (line 164).
WdResume(res, a, h) ==
    /\ http' = h
    /\ IF res = "ok"
       THEN /\ wd' = [wd EXCEPT !.pc = "job"]
            /\ jobs' = SubmitForceReconnect("wd", a.access_token)
       ELSE /\ wd' = [wd EXCEPT !.pc = "sleep", !.wake = now + _WATCHDOG_CHECK_INTERVAL,
                                !.exc = res,
                                !.last_msg = 0, !.silence = 0, !.frames = 0,
                                !.validated = ""]
            /\ UNCHANGED jobs
    /\ UNCHANGED <<now, sessv, routev, telemetry_requested, setup, rl, cf, shutdown>>

\* force_reconnect returned on the executor: the loop sleeps again.
WdJobReturn ==
    /\ wd.pc = "job" /\ jobs["wd"].pc = "done"
    /\ wd' = [wd EXCEPT !.pc = "sleep", !.wake = now + _WATCHDOG_CHECK_INTERVAL,
                         !.last_msg = 0, !.silence = 0, !.frames = 0, !.validated = "",
                         !.reset_at = jobs["wd"].clock_at]
    /\ jobs' = [jobs EXCEPT !["wd"] = IdleJob]
    /\ UNCHANGED <<now, authv, sessv, routev, telemetry_requested, setup, rl, cf, shutdown>>

\* -------------------------------------------- _async_token_refresh_loop
RlSleep(r, a) == [r EXCEPT !.pc = "sleep", !.wake = now + RefreshSleep(a.refresh_after, now)]

\* lines 112-116 after ensure_valid_token: push the token into the session.
RlPush(a) ==
    IF mqtt.created
    THEN /\ rl' = [rl EXCEPT !.pc = "job"]
         /\ jobs' = SubmitUpdateToken("rl", a.access_token)
    ELSE /\ rl' = [RlSleep(rl, a) EXCEPT !.log = "Token refreshed successfully"]
         /\ UNCHANGED jobs

\* The sleep of line 109 is over: ensure_valid_token.
RlWake ==
    /\ rl.pc = "sleep" /\ now >= rl.wake
    /\ IF ensure_valid_token(api) = "none"
       THEN RlPush(api) /\ http' = [http EXCEPT !["rl"] = Call("none")]
       ELSE /\ rl' = [rl EXCEPT !.pc = "validate"]
            /\ http' = [http EXCEPT !["rl"] = Call(ensure_valid_token(api))]
            /\ UNCHANGED jobs
    /\ UNCHANGED <<now, api, issued, sessv, routev, telemetry_requested, setup, wd, cf, shutdown>>

RlResume(res, a, h) ==
    /\ http' = h
    /\ IF res = "ok"
       THEN RlPush(a)
       ELSE /\ rl' = [rl EXCEPT !.pc = "cooldown", !.wake = now + REFRESH_COOLDOWN,
                                !.log = "Error refreshing token", !.exc = res]
            /\ UNCHANGED jobs
    /\ UNCHANGED <<now, sessv, routev, telemetry_requested, setup, wd, cf, shutdown>>

\* update_token returned: line 116, then the next iteration's sleep.
RlJobReturn ==
    /\ rl.pc = "job" /\ jobs["rl"].pc = "done"
    /\ rl' = [RlSleep(rl, api) EXCEPT !.log = "Token refreshed successfully"]
    /\ jobs' = [jobs EXCEPT !["rl"] = IdleJob]
    /\ UNCHANGED <<now, authv, sessv, routev, telemetry_requested, setup, wd, cf, shutdown>>

\* The 300 s sleep of line 121 is over: the next iteration's sleep.
RlCooldownEnd ==
    /\ rl.pc = "cooldown" /\ now >= rl.wake
    /\ rl' = RlSleep(rl, api)
    /\ UNCHANGED <<now, authv, sessv, routev, telemetry_requested, setup, wd, cf, jobs, shutdown>>

\* ---------------------------------------- _async_refresh_and_reconnect
\* The task created by _handle_mqtt_connect_fail starts: refresh_token().
CfStart(s) ==
    /\ cf[s].pc = "scheduled"
    /\ cf' = [cf EXCEPT ![s].pc = "refresh", ![s].log = "MQTT auth failure detected"]
    /\ http' = [http EXCEPT ![s] = Call(refresh_token(api))]
    /\ UNCHANGED <<now, api, issued, sessv, routev, telemetry_requested, setup, wd, rl, jobs, shutdown>>

CfResume(s, res, a, h) ==
    /\ http' = h
    /\ IF res = "ok" /\ mqtt.created
       THEN /\ cf' = [cf EXCEPT ![s].pc = "job"]
            /\ jobs' = SubmitForceReconnect(s, a.access_token)
       ELSE /\ cf' = [cf EXCEPT ![s].pc = "idle",
                                ![s].log = IF res = "ok" THEN @ ELSE "Failed to refresh token"]
            /\ UNCHANGED jobs
    /\ UNCHANGED <<now, sessv, routev, telemetry_requested, setup, wd, rl, shutdown>>

CfJobReturn(s) ==
    /\ cf[s].pc = "job" /\ jobs[s].pc = "done"
    /\ cf' = [cf EXCEPT ![s].pc = "idle"]
    /\ jobs' = [jobs EXCEPT ![s] = IdleJob]
    /\ UNCHANGED <<now, authv, sessv, routev, telemetry_requested, setup, wd, rl, shutdown>>

\* ------------------------------------------------- REST responses
Resume(t, res, a, h) ==
    CASE t = "setup" -> SetupResume(res, a, h)
      [] t = "wd" -> WdResume(res, a, h)
      [] t = "rl" -> RlResume(res, a, h)
      [] OTHER -> CfResume(t, res, a, h)

\* login(): the POST /auth/v1 of task t is answered; the service issues
\* at most max credentials, with a lifetime drawn from ttls.
LoginResponseUpTo(t, out, ttls, max) ==
    /\ http[t].req = "login"
    /\ IF out = "ok"
       THEN /\ issued < max
            /\ issued' = issued + 1
            /\ \E ttl \in ttls :
                 /\ api' = _store_auth(api, AuthResponse(issued + 1, ttl))
                 /\ Resume(t, "ok", api', Answered(http, t))
       ELSE /\ UNCHANGED <<api, issued>>
            /\ Resume(t, LoginError(out), api, Answered(http, t))

LoginResponseWith(t, out, ttls) == LoginResponseUpTo(t, out, ttls, MaxTokens)

LoginResponse(t, out) == LoginResponseWith(t, out, TTLs)

\* refresh_token(): the POST /auth/v1/refresh-token of task t is answered;
\* every failure falls back to login().
RefreshResponseUpTo(t, out, max) ==
    /\ http[t].req = "refresh"
    /\ IF out = "ok"
       THEN /\ issued < max
            /\ issued' = issued + 1
            /\ \E ttl \in TTLs :
                 /\ api' = _store_auth(api, AuthResponse(issued + 1, ttl))
                 /\ Resume(t, "ok", api', Answered(http, t))
       ELSE /\ http' = FallBack(http, t)
            /\ UNCHANGED <<now, api, issued, sessv, routev, telemetry_requested, taskv, jobs>>

RefreshResponse(t, out) == RefreshResponseUpTo(t, out, MaxTokens)

\* The 200 answer to login() or refresh_token() of task t carries no error
\* field and lacks the key AuthKeys[k]: _store_auth raises KeyError after
\* the assignments before it, and neither method catches it.
IncompleteResponse(t, k) ==
    /\ http[t].req \in {"login", "refresh"}
    /\ issued < MaxTokens
    /\ issued' = issued + 1
    /\ \E ttl \in TTLs :
         LET full == AuthResponse(issued + 1, ttl)
             data == [key \in DOMAIN full \ {AuthKeys[k]} |-> full[key]]
         IN /\ api' = _store_auth(api, data)
            /\ Resume(t, "KeyError", api', Answered(http, t))

\* ------------------------------------------------------ executor jobs
\* One statement of the job task t awaits, on a worker thread.
JobTo(t, pc) == [jobs EXCEPT ![t].pc = pc]

\* Variant: every call reconnects.
update_token_always(access_token, m) == "fr_token"

\* update_token (lines 145-148): return, or enter force_reconnect.
update_token(access_token, m) ==
    IF access_token = m.access_token THEN "done" ELSE "fr_token"

UpdateTokenStep(t) ==
    /\ jobs[t].pc = "ut_check"
    /\ jobs' = [jobs EXCEPT ![t].pc = update_token(jobs[t].new_token, mqtt),
                            ![t].calls = IF update_token(jobs[t].new_token, mqtt) = "done"
                                         THEN 0 ELSE 1]
    /\ UNCHANGED <<now, authv, sessv, routev, telemetry_requested, taskv>>

\* Variant: force_reconnect without the clock reset of line 173.
force_reconnect_mqtt_no_clock(pc, m, cs, new_token) ==
    CASE pc = "fr_token" -> IF new_token # None THEN [m EXCEPT !.access_token = new_token] ELSE m
      [] pc = "fr_init" -> _init_client_mqtt(m, cs)
      [] OTHER -> m

\* The session after one statement of force_reconnect at pc.
force_reconnect_mqtt(pc, m, cs, new_token) ==
    CASE pc = "fr_token" -> IF new_token # None THEN [m EXCEPT !.access_token = new_token] ELSE m
      [] pc = "fr_clock" -> [m EXCEPT !.last_message_time = now]
      [] pc = "fr_init" -> _init_client_mqtt(m, cs)
      [] OTHER -> m

\* Variant: force_reconnect without the teardown of lines 160-169.
force_reconnect_clients_no_teardown(pc, m, cs) ==
    CASE pc = "fr_init" -> _init_client_clients(m, cs)
      [] pc = "fr_connect" -> connect_async(cs, m.client)
      [] pc = "fr_start" -> loop_start(cs, m.client)
      [] OTHER -> cs

force_reconnect_clients(pc, m, cs) ==
    CASE pc = "fr_stop" -> IF m.client # None THEN loop_stop(cs, m.client) ELSE cs
      [] pc = "fr_disc" -> client_disconnect(cs, m.client)
      [] pc = "fr_init" -> _init_client_clients(m, cs)
      [] pc = "fr_connect" -> connect_async(cs, m.client)
      [] pc = "fr_start" -> loop_start(cs, m.client)
      [] OTHER -> cs

force_reconnect_next(pc, m) ==
    CASE pc = "fr_token" -> "fr_stop"
      [] pc = "fr_stop" -> IF m.client # None THEN "fr_disc" ELSE "fr_clock"
      [] pc = "fr_disc" -> "fr_clock"
      [] pc = "fr_clock" -> "fr_init"
      [] pc = "fr_init" -> "fr_connect"
      [] pc = "fr_connect" -> "fr_start"
      [] pc = "fr_start" -> "done"

FrPcs == {"fr_token", "fr_stop", "fr_disc", "fr_clock", "fr_init", "fr_connect", "fr_start"}

\* force_reconnect (lines 156-181), one statement.
ForceReconnectStep(t) ==
    /\ jobs[t].pc \in FrPcs
    /\ mqtt' = force_reconnect_mqtt(jobs[t].pc, mqtt, clients, jobs[t].new_token)
    /\ clients' = force_reconnect_clients(jobs[t].pc, mqtt, clients)
    /\ jobs' = [jobs EXCEPT ![t].pc = force_reconnect_next(jobs[t].pc, mqtt),
                            ![t].clock_at = IF jobs[t].pc = "fr_clock" THEN now ELSE @]
    /\ UNCHANGED <<now, authv, routev, telemetry_requested, taskv>>

\* _connect_sync (lines 100-107), one statement.
ConnectSyncStep ==
    LET pc == jobs["setup"].pc IN
    /\ pc \in {"cs_init", "cs_clock", "cs_connect", "cs_start"}
    /\ mqtt' = CASE pc = "cs_init" /\ mqtt.client = None -> _init_client_mqtt(mqtt, clients)
                 [] pc = "cs_clock" -> [mqtt EXCEPT !.last_message_time = now]
                 [] OTHER -> mqtt
    /\ clients' = CASE pc = "cs_init" /\ mqtt.client = None -> _init_client_clients(mqtt, clients)
                    [] pc = "cs_connect" -> connect_async(clients, mqtt.client)
                    [] pc = "cs_start" -> loop_start(clients, mqtt.client)
                    [] OTHER -> clients
    /\ jobs' = JobTo("setup", CASE pc = "cs_init" -> "cs_clock"
                                [] pc = "cs_clock" -> "cs_connect"
                                [] pc = "cs_connect" -> "cs_start"
                                [] pc = "cs_start" -> "done")
    /\ UNCHANGED <<now, authv, routev, telemetry_requested, taskv>>

\* ------------------------------------------- paho's network thread
\* The broker accepts the handshake of client c: _on_connect with rc == 0.
OnConnectOk(c) ==
    /\ clients[c].loop /\ clients[c].conn = "connecting"
    /\ mqtt' = [mqtt EXCEPT !.last_message_time = now]
    /\ clients' = on_connect_ok_clients(mqtt, clients, c)
    /\ UNCHANGED <<now, authv, routev, telemetry_requested, taskv, jobs>>

\* The broker rejects the handshake of client c: _on_connect with rc != 0
\* disconnects and calls the connect-failure callback, if one is set.
OnConnectRefused(c) ==
    /\ clients[c].loop /\ clients[c].conn = "connecting"
    /\ clients' = client_disconnect(clients, c)
    /\ IF mqtt.on_connect_fail
       THEN \E s \in CfSlots :
              /\ cf[s].pc = "idle"
              /\ cf' = [cf EXCEPT ![s].pc = "scheduled"]
       ELSE UNCHANGED cf
    /\ UNCHANGED <<now, authv, mqtt, routev, telemetry_requested, setup, wd, rl, jobs, shutdown>>

\* The connection of client c drops; paho retries it by itself.
OnDisconnect(c) ==
    /\ clients[c].loop /\ clients[c].conn = "connected"
    /\ clients' = connect_async(clients, c)
    /\ UNCHANGED <<now, authv, mqtt, routev, telemetry_requested, taskv, jobs>>

\* Variant: only a frame that is handed on resets the clock.
OnMessageRoutedOnly(c, f) ==
    /\ clients[c].loop /\ clients[c].conn = "connected"
    /\ nframes < MaxFrames
    /\ nframes' = nframes + 1
    /\ mqtt' = IF Routed(f) THEN [mqtt EXCEPT !.last_message_time = now] ELSE mqtt
    /\ inbox' = IF Routed(f) THEN Append(inbox, RoutedMessage(f)) ELSE inbox
    /\ UNCHANGED <<now, authv, clients, dryer_data, signals, tele_last, telemetry_requested, taskv, jobs>>

\* A frame arrives on client c: _on_mqtt_message, and for a routed frame
\* _handle_mqtt_message queues _async_handle_message on the event loop.
OnMessage(c, f) ==
    /\ clients[c].loop /\ clients[c].conn = "connected"
    /\ nframes < MaxFrames
    /\ nframes' = nframes + 1
    /\ mqtt' = [mqtt EXCEPT !.last_message_time = now]
    /\ inbox' = IF Routed(f) THEN Append(inbox, RoutedMessage(f)) ELSE inbox
    /\ UNCHANGED <<now, authv, clients, dryer_data, signals, tele_last, telemetry_requested, taskv, jobs>>

\* Variant: the dispatcher signal is sent for every kind of message.
SignalledAnyKind(dd, msg) == msg.dryer_id \in DOMAIN dd

\* _async_handle_message reaches async_dispatcher_send (line 98): neither
\* return of lines 82-84 and 94-96 was taken.
Signalled(dd, msg) == IsRouted(dd, msg)

\* Variant: the task created last runs first.
HandleMessageNewestFirst ==
    /\ inbox # <<>>
    /\ LET msg == inbox[Len(inbox)]
       IN /\ dryer_data' = Merge(dryer_data, msg)
          /\ telemetry_requested' =
                IF msg.dryer_id \in DOMAIN dryer_data THEN FALSE ELSE telemetry_requested
          /\ signals' = IF Signalled(dryer_data, msg)
                        THEN [signals EXCEPT ![msg.dryer_id] = @ + 1] ELSE signals
          /\ tele_last' = IF IsRouted(dryer_data, msg) /\ msg.msg_type = "telemetry"
                          THEN [tele_last EXCEPT ![msg.dryer_id] = DictUpdate(@, msg.payload)]
                          ELSE tele_last
    /\ inbox' = SubSeq(inbox, 1, Len(inbox) - 1)
    /\ UNCHANGED <<now, authv, sessv, nframes, taskv, jobs>>

\* _async_handle_message for the oldest queued message.
HandleMessage ==
    /\ inbox # <<>>
    /\ LET msg == Head(inbox)
       IN /\ dryer_data' = Merge(dryer_data, msg)
          /\ telemetry_requested' =
                IF msg.dryer_id \in DOMAIN dryer_data THEN FALSE ELSE telemetry_requested
          /\ signals' = IF Signalled(dryer_data, msg)
                        THEN [signals EXCEPT ![msg.dryer_id] = @ + 1] ELSE signals
          /\ tele_last' = IF IsRouted(dryer_data, msg) /\ msg.msg_type = "telemetry"
                          THEN [tele_last EXCEPT ![msg.dryer_id] = DictUpdate(@, msg.payload)]
                          ELSE tele_last
    /\ inbox' = Tail(inbox)
    /\ UNCHANGED <<now, authv, sessv, nframes, taskv, jobs>>

\* ------------------------------------------------------ async_shutdown
\* for task in (self._token_refresh_task, self._watchdog_task): line 188
LoopTasks == <<"rl", "wd">>
LoopPc(t) == IF t = "rl" THEN rl.pc ELSE wd.pc

\* Variant: the task is cancelled and not awaited.
AwaitOverAtOnce(t) == TRUE

\* `await task` (line 192) returns: the task has ended.
AwaitOver(t) == LoopPc(t) = "cancelled"

\* task.cancel() (line 190): CancelledError is thrown into the task at the
\* await it is suspended in, so no further statement of the loop body runs
\* and the request it awaited is abandoned; a job it awaited runs on.
ShutdownCancel ==
    /\ setup.pc = "done"
    /\ shutdown.pc \in {"idle", "cancel"}
    /\ LET t == LoopTasks[shutdown.i]
       IN /\ LoopPc(t) \notin {"none", "cancelling", "cancelled"}
          /\ rl' = IF t = "rl" THEN [rl EXCEPT !.pc = "cancelling"] ELSE rl
          /\ wd' = IF t = "wd" THEN [wd EXCEPT !.pc = "cancelling"] ELSE wd
          /\ http' = [http EXCEPT ![t] = Call("none")]
    /\ shutdown' = [shutdown EXCEPT !.pc = "await"]
    /\ UNCHANGED <<now, api, issued, sessv, routev, telemetry_requested, setup, cf, jobs>>

\* The loop's `except asyncio.CancelledError: raise` (lines 117-118 and
\* 161-162): the task ends.
TaskCancelled(t) ==
    /\ LoopPc(t) = "cancelling"
    /\ rl' = IF t = "rl" THEN [rl EXCEPT !.pc = "cancelled"] ELSE rl
    /\ wd' = IF t = "wd" THEN [wd EXCEPT !.pc = "cancelled"] ELSE wd
    /\ UNCHANGED <<now, authv, sessv, routev, telemetry_requested, setup, cf, jobs, shutdown>>

\* `await task` is over (lines 191-194): the next task, or line 196.
ShutdownAwaited ==
    /\ shutdown.pc = "await"
    /\ AwaitOver(LoopTasks[shutdown.i])
    /\ shutdown' = IF shutdown.i < Len(LoopTasks)
                   THEN [pc |-> "cancel", i |-> shutdown.i + 1]
                   ELSE [shutdown EXCEPT !.pc = "disconnect"]
    /\ UNCHANGED <<now, authv, sessv, routev, telemetry_requested, setup, wd, rl, cf, jobs>>

\* mqtt.disconnect (mqtt_client.py lines 109-115), one statement at a
\* time: executor jobs run beside it.
ShutdownDisconnectStep ==
    /\ shutdown.pc \in {"disconnect", "md_stop", "md_disc"}
    /\ CASE shutdown.pc = "disconnect" ->
              /\ shutdown' = [shutdown EXCEPT !.pc = IF mqtt.created /\ mqtt.client # None
                                                     THEN "md_stop" ELSE "done"]
              /\ UNCHANGED clients
         [] shutdown.pc = "md_stop" ->
              /\ clients' = loop_stop(clients, mqtt.client)
              /\ shutdown' = [shutdown EXCEPT !.pc = "md_disc"]
         [] shutdown.pc = "md_disc" ->
              /\ clients' = client_disconnect(clients, mqtt.client)
              /\ shutdown' = [shutdown EXCEPT !.pc = "done"]
    /\ UNCHANGED <<now, authv, mqtt, routev, telemetry_requested, setup, wd, rl, cf, jobs>>

\* ------------------------------------------------------------ frames
Frame(topic, json_ok, payload) == [topic |-> topic, json_ok |-> json_ok, payload |-> payload]
TelemetryFrame(d, payload) == Frame(DryerTopic(Account.customerId, d, "telemetry"), TRUE, payload)
PresenceFrame == Frame(OnlineTopic(Account.customerId), FALSE, EmptyDict)

DeviceFrame(d, ty, payload) == Frame(DryerTopic(Account.customerId, d, ty), TRUE, payload)

\* The frames of the watchdog runs: a presence frame and one telemetry frame.
WatchdogFrames == {PresenceFrame, TelemetryFrame(7, [temp |-> Scalar(10)])}

\* The frames of the router runs: every message kind, a telemetry payload
\* with a field named system, an unknown device, an unknown kind, a body
\* that is no JSON and a topic outside the pattern.
RouterFrames ==
    {PresenceFrame,
     TelemetryFrame(7, [temp |-> Scalar(10), screen |-> Scalar(4)]),
     TelemetryFrame(7, [temp |-> Scalar(20)]),
     TelemetryFrame(7, [screen |-> Scalar(1)]),
     TelemetryFrame(7, [system |-> Scalar(1)]),
     DeviceFrame(7, "system", [fw |-> Scalar(2)]),
     DeviceFrame(7, "system", [hw |-> Scalar(3)]),
     DeviceFrame(7, "name-update", [name |-> Scalar(5)]),
     DeviceFrame(7, "other", [temp |-> Scalar(30)]),
     TelemetryFrame(8, [temp |-> Scalar(40)]),
     Frame(DryerTopic(Account.customerId, 7, "telemetry"), FALSE, EmptyDict),
     Frame(<<"act", "42", "xx", "7", "m", "telemetry">>, TRUE, [temp |-> Scalar(50)]),
     Frame(<<"act", "42", "ed", "seven", "m", "telemetry">>, TRUE, [temp |-> Scalar(60)])}

\* One frame of every fate: presence, a body that is no JSON, a topic off
\* the pattern, an unknown device, an unknown kind, and the three kinds
\* that are merged.
ClockedFrames ==
    {PresenceFrame,
     Frame(DryerTopic(Account.customerId, 7, "telemetry"), FALSE, EmptyDict),
     Frame(<<"act", "42", "xx", "7", "m", "telemetry">>, TRUE, [temp |-> Scalar(50)]),
     TelemetryFrame(8, [temp |-> Scalar(40)]),
     DeviceFrame(7, "other", [temp |-> Scalar(30)]),
     TelemetryFrame(7, [temp |-> Scalar(10)]),
     DeviceFrame(7, "system", [fw |-> Scalar(2)]),
     DeviceFrame(7, "name-update", [name |-> Scalar(5)])}

\* The router's frames, and frames off the subscribed pattern that the
\* topic test of lines 223-224 lets through or that line 211 stops: another
\* root and customer, a seventh segment, and a message type named "on".
AllFrames ==
    RouterFrames \cup
    {Frame(<<"xyz", "99", "ed", "7", "m", "telemetry">>, TRUE, [temp |-> Scalar(70)]),
     Frame(<<"act", "42", "ed", "7", "m", "telemetry", "extra">>, TRUE, [temp |-> Scalar(80)]),
     Frame(<<"act", "42", "ed", "7", "m", "on">>, TRUE, [temp |-> Scalar(90)])}

\* ------------------------------------------------------------- specs
SetupNext ==
    \/ SetupStart
    \/ \E out \in LoginOutcomes : LoginResponse("setup", out)
    \/ \E out \in DryerOutcomes : DryersResponse(out)
    \/ \E out \in RefreshOutcomes : RefreshResponse("setup", out)
    \/ ConnectSyncStep
    \/ SetupRegister
    \/ SetupSubscribe
    \/ SetupStartTasks

\* The watchdog and the session it supervises, with the clock running.
Next ==
    \/ SetupNext
    \/ Advance
    \/ WdTick
    \/ \E out \in RefreshOutcomes : RefreshResponse("wd", out)
    \/ \E out \in LoginOutcomes : LoginResponse("wd", out)
    \/ ForceReconnectStep("wd")
    \/ WdJobReturn
    \/ \E c \in DOMAIN clients : OnConnectOk(c)
    \/ \E c \in DOMAIN clients : OnDisconnect(c)
    \/ \E c \in DOMAIN clients, f \in WatchdogFrames : OnMessage(c, f)
    \/ HandleMessage

Spec == Init /\ [][Next]_vars

\* The event loop runs every task that is ready, worker threads run on,
\* every REST request is answered and the clock moves on; the broker and
\* the devices are free to stay silent.
LiveSpec ==
    /\ Spec
    /\ WF_vars(SetupNext)
    /\ WF_vars(Advance)
    /\ WF_vars(WdTick)
    /\ WF_vars(\E out \in RefreshOutcomes : RefreshResponse("wd", out))
    /\ WF_vars(\E out \in LoginOutcomes : LoginResponse("wd", out))
    /\ WF_vars(ForceReconnectStep("wd"))
    /\ WF_vars(WdJobReturn)
    /\ WF_vars(HandleMessage)

\* The token refresh loop and the session it pushes tokens into.
RefreshNext ==
    \/ SetupNext
    \/ Advance
    \/ RlWake
    \/ \E out \in RefreshOutcomes : RefreshResponse("rl", out)
    \/ \E out \in LoginOutcomes : LoginResponse("rl", out)
    \/ UpdateTokenStep("rl")
    \/ ForceReconnectStep("rl")
    \/ RlJobReturn
    \/ RlCooldownEnd
    \/ \E c \in DOMAIN clients : OnConnectOk(c)

RefreshSpec == Init /\ [][RefreshNext]_vars

\* The watchdog over a horizon long enough for two dead-silence verdicts.
AdvanceLong == AdvanceWithin(Quantum * WatchQuanta)

WatchNext ==
    \/ SetupNext
    \/ AdvanceLong
    \/ WdTick
    \/ \E out \in RefreshOutcomes : RefreshResponse("wd", out)
    \/ \E out \in LoginOutcomes : LoginResponse("wd", out)
    \/ ForceReconnectStep("wd")
    \/ WdJobReturn
    \/ \E c \in DOMAIN clients : OnConnectOk(c)
    \/ \E c \in DOMAIN clients, f \in WatchdogFrames : OnMessage(c, f)
    \/ HandleMessage

WatchSpec == Init /\ [][WatchNext]_vars

\* The watchdog with frames arriving at any moment, each tick noting the
\* frames that had arrived when it read the clock.
NotingNext ==
    \/ SetupNext
    \/ Advance
    \/ WdTickNoting(TRUE)
    \/ \E out \in RefreshOutcomes : RefreshResponse("wd", out)
    \/ \E out \in LoginOutcomes : LoginResponse("wd", out)
    \/ ForceReconnectStep("wd")
    \/ WdJobReturn
    \/ \E c \in DOMAIN clients : OnConnectOk(c)
    \/ \E c \in DOMAIN clients, f \in WatchdogFrames : OnMessage(c, f)
    \/ HandleMessage

NotingSpec == Init /\ [][NotingNext]_vars

\* The connect-failure recovery against a broker that rejects every
\* handshake, within the first watchdog interval: the clock stands still.
RejectNext ==
    \/ SetupNext
    \/ \E c \in DOMAIN clients : OnConnectRefused(c)
    \/ \E s \in CfSlots : CfStart(s)
    \/ \E s \in CfSlots, out \in RefreshOutcomes : RefreshResponseUpTo(s, out, RejectTokens)
    \/ \E s \in CfSlots, out \in LoginOutcomes : LoginResponseUpTo(s, out, TTLs, RejectTokens)
    \/ \E s \in CfSlots : ForceReconnectStep(s)
    \/ \E s \in CfSlots : CfJobReturn(s)

RejectSpec == Init /\ [][RejectNext]_vars

\* The token refresh loop with an auth service whose answers may lack a field.
StoreNext ==
    \/ RefreshNext
    \/ \E t \in {"setup", "rl"}, k \in 1..Len(AuthKeys) : IncompleteResponse(t, k)

StoreSpec == Init /\ [][StoreNext]_vars

\* The message router: frames of every kind, no clock.
RouterNext ==
    \/ SetupNext
    \/ \E c \in DOMAIN clients : OnConnectOk(c)
    \/ \E c \in DOMAIN clients, f \in RouterFrames : OnMessage(c, f)
    \/ HandleMessage

RouterSpec == Init /\ [][RouterNext]_vars

\* Every task that can start a reconnect, with the executor threads
\* interleaved statement by statement; no inbound frames.
ConcNext ==
    \/ SetupNext
    \/ AdvanceQuiet
    \/ WdTick
    \/ WdJobReturn
    \/ RlWake
    \/ RlJobReturn
    \/ RlCooldownEnd
    \/ \E s \in CfSlots : CfStart(s)
    \/ \E s \in CfSlots : CfJobReturn(s)
    \/ \E t \in Tasks \ {"setup"}, out \in RefreshOutcomes : RefreshResponse(t, out)
    \/ \E t \in Tasks \ {"setup"}, out \in LoginOutcomes : LoginResponse(t, out)
    \/ UpdateTokenStep("rl")
    \/ \E t \in Tasks \ {"setup"} : ForceReconnectStep(t)
    \/ \E c \in DOMAIN clients : OnConnectOk(c)
    \/ \E c \in DOMAIN clients : OnConnectRefused(c)

ConcSpec == Init /\ [][ConcNext]_vars

\* Both loops and the unload of the entry: async_shutdown may be called
\* at any moment after async_setup returned.  The broker stays silent.
LoopsNext ==
    \/ SetupNext
    \/ AdvanceQuiet
    \/ WdTick
    \/ WdJobReturn
    \/ RlWake
    \/ RlJobReturn
    \/ RlCooldownEnd
    \/ \E t \in {"wd", "rl"}, out \in RefreshOutcomes : RefreshResponse(t, out)
    \/ \E t \in {"wd", "rl"}, out \in LoginOutcomes : LoginResponse(t, out)
    \/ UpdateTokenStep("rl")
    \/ \E t \in {"wd", "rl"} : ForceReconnectStep(t)
    \/ ShutdownCancel
    \/ \E t \in {"wd", "rl"} : TaskCancelled(t)
    \/ ShutdownAwaited
    \/ ShutdownDisconnectStep

LoopsSpec == Init /\ [][LoopsNext]_vars

\* The refresh loop's first sleep, for every refreshAfter the auth service
\* may put into the token envelope: before, at and after the login
\* instant, up to more than an hour ahead.
SleepTTLs == {k * SleepStep : k \in (0 - SleepBelow)..SleepAbove}
SleepNext ==
    \/ SetupStart
    \/ \E out \in LoginOutcomes : LoginResponseWith("setup", out, SleepTTLs)
    \/ \E out \in DryerOutcomes : DryersResponse(out)
    \/ \E out \in RefreshOutcomes : RefreshResponse("setup", out)
    \/ ConnectSyncStep
    \/ SetupRegister
    \/ SetupSubscribe
    \/ SetupStartTasks

SleepSpec == Init /\ [][SleepNext]_vars

\* force_reconnect as a method: after setup one caller at a time invokes it
\* on an executor thread, with no token or with any token, whatever the
\* broker has done to the connection in the meantime.
ForceReconnectCall(tok) ==
    /\ setup.pc = "done"
    /\ jobs["wd"].pc = "idle"
    /\ Len(clients) <= MaxReconnects
    /\ jobs' = SubmitForceReconnect("wd", tok)
    /\ UNCHANGED <<now, authv, sessv, routev, telemetry_requested, taskv>>
ForceReconnectReturn ==
    /\ jobs["wd"].pc = "done"
    /\ jobs' = [jobs EXCEPT !["wd"] = IdleJob]
    /\ UNCHANGED <<now, authv, sessv, routev, telemetry_requested, taskv>>
ReconnectNext ==
    \/ SetupNext
    \/ \E tok \in 0..MaxTokens : ForceReconnectCall(tok)
    \/ ForceReconnectStep("wd")
    \/ ForceReconnectReturn
    \/ \E c \in DOMAIN clients : OnConnectOk(c)
    \/ \E c \in DOMAIN clients : OnConnectRefused(c)
    \/ \E c \in DOMAIN clients : OnDisconnect(c)

ReconnectSpec == Init /\ [][ReconnectNext]_vars

\* The watchdog, the session and the router with frames of every kind and
\* the clock running.
FramesNext ==
    \/ SetupNext
    \/ AdvanceQuiet
    \/ WdTick
    \/ \E out \in RefreshOutcomes : RefreshResponse("wd", out)
    \/ \E out \in LoginOutcomes : LoginResponse("wd", out)
    \/ ForceReconnectStep("wd")
    \/ WdJobReturn
    \/ \E c \in DOMAIN clients : OnConnectOk(c)
    \/ \E c \in DOMAIN clients, f \in ClockedFrames : OnMessage(c, f)
    \/ HandleMessage

FramesSpec == Init /\ [][FramesNext]_vars

\* The topic parser: frames on and off the pattern, no clock.
PatternNext ==
    \/ SetupNext
    \/ \E c \in DOMAIN clients : OnConnectOk(c)
    \/ \E c \in DOMAIN clients, f \in AllFrames : OnMessage(c, f)
    \/ HandleMessage

PatternSpec == Init /\ [][PatternNext]_vars


\* ============================================================ properties
ValidationErrors == {"HarvestRightAuthError", "HarvestRightApiError"}

\* A step that is a watchdog tick, and one that observes dead silence.
TickStep == wd.pc = "sleep" /\ wd' # wd
DeadTickStep ==
    /\ TickStep
    /\ mqtt.last_message_time # 0
    /\ now - mqtt.last_message_time >= _WATCHDOG_DEAD_THRESHOLD
\* The watchdog's token validation returns or raises.
ValidationEnds == wd.pc = "validate" /\ wd'.pc # "validate"

\* C1: once the session is started, silence of 900 s or more leads to a
\* forced reconnect run for the watchdog, unless a frame or a connect ends
\* the silence first or token validation fails; the tick
\* that observes silence >= 900 s submits it at once (or first awaits the
\* validation), and a validation that returns submits it.
C1_SilentFailureRecovery ==
    /\ (wd.pc # "none" /\ now - mqtt.last_message_time >= _WATCHDOG_DEAD_THRESHOLD)
         ~> (\/ now - mqtt.last_message_time < _WATCHDOG_DEAD_THRESHOLD
             \/ jobs["wd"].pc \in FrPcs
             \/ wd.exc \in ValidationErrors)
    /\ [][DeadTickStep =>
            \/ jobs'["wd"].pc = "fr_token"
            \/ wd'.pc = "validate" /\ http'["wd"].req # "none"]_vars
    /\ [][ValidationEnds =>
            \/ jobs'["wd"].pc = "fr_token"
            \/ wd'.exc \in ValidationErrors]_vars

\* Frames arrived, then silence of 900 s, and the watchdog's reconnect runs.
C1_Witness ==
    /\ nframes >= 1
    /\ wd.silence >= _WATCHDOG_DEAD_THRESHOLD
    /\ jobs["wd"].pc \in FrPcs

\* The processing of a dead tick ends: the loop sleeps again.
DeadTickEnds == wd.pc \in {"validate", "job"} /\ wd'.pc = "sleep"

\* C2 as stated: every tick that observes silence >= 900 s ends with a
\* forced reconnect done.
C2_Original == [][DeadTickEnds => jobs["wd"].pc = "done"]_vars

\* C2: a tick that observes silence >= 900 s ends with token validation
\* failed or with a forced reconnect done; the reconnect sets the
\* last-message clock to the instant of its reset, the clock never falls
\* behind that instant, and a tick less than 600 s after it sees silence
\* below the stale threshold.
C2_GraceReset ==
    /\ [][DeadTickEnds =>
            \/ wd'.exc \in ValidationErrors
            \/ /\ jobs["wd"].pc = "done"
               /\ wd'.reset_at >= wd.last_msg + _WATCHDOG_DEAD_THRESHOLD
               /\ mqtt.last_message_time >= wd'.reset_at]_vars
    /\ [][jobs["wd"].pc = "fr_clock" /\ jobs'["wd"].pc # "fr_clock" =>
            mqtt'.last_message_time = now /\ jobs'["wd"].clock_at = now]_vars
    /\ [](mqtt.last_message_time >= wd.reset_at)
    /\ [][TickStep /\ wd.reset_at # 0 /\ now - wd.reset_at < _WATCHDOG_STALE_THRESHOLD =>
            wd'.log = "clear"]_vars

\* A tick after the watchdog's reconnect found the session within its grace period.
C2_Witness == wd.reset_at # 0 /\ wd.log = "clear" /\ now - wd.reset_at < _WATCHDOG_STALE_THRESHOLD

\* C3 as stated: the watchdog's forced reconnect is preceded by a refresh
\* request of the same tick.
C3_Original == wd.pc = "job" => http["wd"].refreshes >= 1

\* C3: the watchdog's forced reconnect is given the token the API client
\* holds after ensure_valid_token; a refresh request was made before it
\* exactly when the tick found the token stale, and then the token is the
\* one that refresh (or its fallback login) issued.
C3_ValidatedToken ==
    wd.pc = "job" =>
      /\ jobs["wd"].new_token = api.access_token
      /\ wd.validated \in {"valid", "refresh"}
      /\ wd.validated = "valid" =>
           /\ http["wd"].refreshes = 0 /\ http["wd"].logins = 0
           /\ wd.last_msg + wd.silence < api.refresh_after
      /\ wd.validated = "refresh" =>
           /\ http["wd"].refreshes = 1
           /\ jobs["wd"].new_token = issued

\* The token was stale, was refreshed, and the reconnect runs with the new one.
C3_Witness ==
    /\ wd.pc = "job" /\ wd.validated = "refresh"
    /\ jobs["wd"].pc = "fr_stop"
    /\ mqtt.access_token = issued /\ issued >= 2

\* The request-telemetry commands published on the session's client.
Nudges ==
    IF mqtt.client = None THEN 0
    ELSE Cardinality({i \in DOMAIN clients[mqtt.client].acts :
                        clients[mqtt.client].acts[i] = "request_telemetry"})

\* C4 as stated: a tick with 600 s <= silence < 900 s and the nudge flag
\* false sends one request-telemetry command per registered device and sets
\* the flag.
C4_Original ==
    [][TickStep /\ WatchdogBranch(mqtt.last_message_time, now - mqtt.last_message_time,
                                  telemetry_requested) = "stale" =>
         /\ telemetry_requested'
         /\ Nudges' = Nudges + Cardinality(DOMAIN dryer_data)]_vars

\* C5 as stated: while no frame has been received the watchdog neither
\* nudges nor reconnects.
C5_Original ==
    nframes = 0 =>
      /\ Nudges = 0
      /\ wd.pc \notin {"validate", "job"}
      /\ jobs["wd"].pc = "idle"

\* update_token's one statement runs in the refresh loop's job.
UpdateTokenRuns == jobs["rl"].pc = "ut_check" /\ jobs'["rl"].pc # "ut_check"

\* C6: update_token with the token the session uses returns with the
\* session and its clients untouched; with another token it enters
\* force_reconnect once, and when the job is done there is one more client,
\* which carries that token and is the session's client.
C6_UpdateToken ==
    /\ [][UpdateTokenRuns =>
            IF jobs["rl"].new_token = mqtt.access_token
            THEN /\ mqtt' = mqtt /\ clients' = clients
                 /\ jobs'["rl"].pc = "done" /\ jobs'["rl"].calls = 0
            ELSE /\ jobs'["rl"].pc = "fr_token" /\ jobs'["rl"].calls = 1]_vars
    /\ [](jobs["rl"].calls <= 1)
    /\ [](jobs["rl"].pc = "done" /\ jobs["rl"].calls = 1 =>
            /\ Len(clients) = jobs["rl"].base + 1
            /\ mqtt.client = Len(clients)
            /\ mqtt.access_token = jobs["rl"].new_token
            /\ clients[mqtt.client].password = jobs["rl"].new_token
            /\ clients[mqtt.client].loop)
    /\ [](jobs["rl"].pc = "done" /\ jobs["rl"].calls = 0 =>
            /\ Len(clients) = jobs["rl"].base
            /\ mqtt.access_token = jobs["rl"].new_token)

\* A new token was pushed and the one reconnect it caused is done.
C6_Witness ==
    /\ jobs["rl"].pc = "done" /\ jobs["rl"].calls = 1
    /\ clients[mqtt.client].password = jobs["rl"].new_token
    /\ jobs["rl"].new_token >= 2

\* The unchanged token was pushed and nothing happened.
C6_NoOpReached == jobs["rl"].pc = "done" /\ jobs["rl"].calls = 0

\* C7: ensure_valid_token, as the watchdog calls it, leaves the credential
\* alone and sends no request while now < refresh_after; from refresh_after
\* on it sends one refresh request, and no call sends a second one.
C7_EnsureValidToken ==
    /\ [][DeadTickStep =>
            /\ api' = api
            /\ IF now < api.refresh_after
               THEN http'["wd"] = Call("none") /\ wd'.pc = "job"
               ELSE /\ http'["wd"].req = "refresh"
                    /\ http'["wd"].refreshes = 1 /\ http'["wd"].logins = 0]_vars
    /\ [](\A t \in Tasks : http[t].refreshes <= 1 /\ http[t].logins <= 1)
    /\ [](wd.pc = "job" /\ wd.validated = "valid" => http["wd"] = Call("none"))

\* The token was stale at the call and the one refresh request is out.
C7_Witness ==
    /\ wd.pc = "validate" /\ http["wd"].req = "refresh" /\ http["wd"].refreshes = 1
    /\ wd.last_msg + wd.silence >= api.refresh_after

\* The token was valid at the call: no request.
C7_ValidReached == wd.pc = "job" /\ wd.validated = "valid" /\ http["wd"] = Call("none")

\* The presence publish comes first among the operations on a connection,
\* subscriptions aside.
PresenceFirst(acts) ==
    \E i \in DOMAIN acts :
      /\ acts[i] = "publish_on"
      /\ \A j \in 1..(i - 1) : acts[j] = "subscribe"

\* C8: on every connection the broker has accepted, the client's first
\* operation other than a subscription is the publish of "on".
C8_PresenceAfterConnect ==
    \A c \in DOMAIN clients :
      (clients[c].conn = "connected" \/ clients[c].acts # <<>>) => PresenceFirst(clients[c].acts)

\* A reconnect's client is connected, subscribed and has published "on".
C8_Witness ==
    \E c \in DOMAIN clients :
      /\ c >= 2 /\ clients[c].conn = "connected"
      /\ Len(clients[c].acts) >= 2
      /\ clients[c].acts[Len(clients[c].acts)] = "publish_on"

\* C9 as stated: every client whose network loop runs is the session's client.
C9_Original == LiveClients(clients) \subseteq {mqtt.client}

\* C10 as stated: every field a telemetry message wrote holds the value of
\* the last telemetry message that carried it.
C10_Original ==
    \A d \in DOMAIN tele_last :
      \A k \in DOMAIN tele_last[d] :
        k \in DOMAIN dryer_data[d] /\ dryer_data[d][k] = tele_last[d][k]


\* _async_handle_message runs for the oldest queued message.
Handled == inbox # <<>> /\ inbox' = Tail(inbox)
MessageKinds == {"telemetry", "system", "name-update"}

\* C11 as stated: after a system message for a registered device the nested
\* system record is that message's payload and every field a telemetry
\* message wrote is as it was.
C11_Original ==
    [][Handled /\ Head(inbox).msg_type = "system"
               /\ Head(inbox).dryer_id \in DOMAIN dryer_data =>
         LET d == Head(inbox).dryer_id
         IN /\ dryer_data'[d]["system"] = Head(inbox).payload
            /\ \A k \in DOMAIN tele_last[d] : dryer_data'[d][k] = dryer_data[d][k]]_vars

\* C12: handling a telemetry, system or name-update message of a registered
\* device applies its merge and adds one to the device's signals, in one
\* step; handling any other message changes neither the state nor the
\* signals, and nothing else ever sends a signal.
C12_SignalOncePerRouted ==
    /\ [][Handled =>
            LET msg == Head(inbox)
                d == msg.dryer_id
            IN IF d \in DOMAIN dryer_data /\ msg.msg_type \in MessageKinds
               THEN /\ signals' = [signals EXCEPT ![d] = signals[d] + 1]
                    /\ msg.msg_type = "telemetry" =>
                         \A k \in DOMAIN msg.payload : dryer_data'[d][k] = msg.payload[k]
                    /\ msg.msg_type = "system" => dryer_data'[d]["system"] = msg.payload
                    /\ msg.msg_type = "name-update" => dryer_data'[d]["name_update"] = msg.payload
               ELSE signals' = signals /\ dryer_data' = dryer_data]_vars
    /\ [][(\E d \in DOMAIN signals : signals'[d] # signals[d]) => Handled]_vars

\* Two messages of the device were routed, one of them a system message.
C12_Witness ==
    /\ 7 \in DOMAIN signals /\ signals[7] = 2
    /\ "system" \in DOMAIN dryer_data[7]
    /\ nframes >= 2 /\ inbox = <<>>


\* C13: a login answered with HTTP 401 during setup ends setup with the
\* authentication error, and a setup that has failed has created no
\* session: no MQTT client object, no client, no executor job, and neither
\* background loop has been started.
C13_LoginFailureAbortsSetup ==
    /\ [][setup.pc = "login" /\ LoginResponse("setup", "401") =>
            setup'.pc = "failed" /\ setup'.exc = "HarvestRightAuthError"]_vars
    /\ [](setup.pc = "failed" =>
            /\ ~mqtt.created /\ mqtt.client = None
            /\ clients = <<>>
            /\ \A t \in Tasks : jobs[t].pc = "idle"
            /\ wd.pc = "none" /\ rl.pc = "none")
    /\ [][setup.pc = "failed" => setup' = setup]_vars

\* The first login was rejected: setup has failed with the authentication error.
C13_Witness ==
    /\ setup.pc = "failed" /\ setup.exc = "HarvestRightAuthError"
    /\ issued = 0 /\ api.access_token = None


\* C14: a JSON frame on act/42/ed/7/m/telemetry is queued for the router as
\* a telemetry message of device 7 with the frame's body; once handled for
\* a registered device the state holds every field of the body; and the
\* freezing sensor of a device is True exactly when the stored screen
\* is 4, False for another screen and None when no screen is stored.
C14_TelemetryEndToEnd ==
    /\ [][\A c \in DOMAIN clients, f \in RouterFrames :
            (OnMessage(c, f) /\ f.json_ok
               /\ f.topic = <<"act", "42", "ed", "7", "m", "telemetry">>) =>
              inbox' = Append(inbox, [dryer_id |-> 7, msg_type |-> "telemetry",
                                      payload |-> f.payload])]_vars
    /\ [][Handled /\ Head(inbox).msg_type = "telemetry"
                  /\ Head(inbox).dryer_id \in DOMAIN dryer_data =>
            \A k \in DOMAIN Head(inbox).payload :
              /\ k \in DOMAIN dryer_data'[Head(inbox).dryer_id]
              /\ dryer_data'[Head(inbox).dryer_id][k] = Head(inbox).payload[k]]_vars
    /\ [](\A d \in DOMAIN dryer_data :
            is_on(dryer_data, d) =
              IF "screen" \notin DOMAIN dryer_data[d] THEN "None"
              ELSE IF dryer_data[d]["screen"] = [scalar |-> 4] THEN "True"
              ELSE "False")

\* The body {"temp": 10, "screen": 4} has been merged and the sensor is on.
C14_Witness ==
    /\ 7 \in DOMAIN dryer_data
    /\ {"temp", "screen"} \subseteq DOMAIN dryer_data[7]
    /\ dryer_data[7]["temp"] = [scalar |-> 10]
    /\ dryer_data[7]["screen"] = [scalar |-> 4]
    /\ is_on(dryer_data, 7) = "True"

\* Another screen is stored and the sensor is off.
C14_OffReached == 7 \in DOMAIN dryer_data /\ is_on(dryer_data, 7) = "False"


\* Task t sends a login request.
LoginSent(t) == http[t].req # "login" /\ http'[t].req = "login"

\* C15 as stated: once an iteration of the refresh loop has ended with the
\* authentication error of a failed login, no background activity sends a
\* login request again.
C15_Original ==
    [][rl.exc = "HarvestRightAuthError" =>
         \A t \in Tasks \ {"setup"} : ~LoginSent(t)]_vars


RefreshFailures == {"client_error", "non200", "error_field"}

C16_FailureReached == rl.pc = "cooldown" /\ http["rl"].logins = 1


\* C17: async_shutdown cancels the refresh loop and the watchdog loop and
\* awaits the end of each before it disconnects the session: no statement
\* of mqtt.disconnect runs while a loop task has not ended, and an ended
\* loop takes no further step.
ShutdownDisconnecting == shutdown.pc \in {"disconnect", "md_stop", "md_disc", "done"}
LoopEnded(r) == r.pc = "cancelled"
C17_LoopsEndBeforeDisconnect ==
    /\ [](ShutdownDisconnecting => LoopEnded(wd) /\ LoopEnded(rl))
    /\ [][shutdown.pc \in {"disconnect", "md_stop", "md_disc"} /\ shutdown' # shutdown
            => LoopEnded(wd) /\ LoopEnded(rl) /\ wd' = wd /\ rl' = rl]_vars
    /\ [][LoopEnded(wd) => wd' = wd]_vars
    /\ [][LoopEnded(rl) => rl' = rl]_vars
    /\ [](\A t \in {"wd", "rl"} :
            LoopPc(t) \in {"cancelling", "cancelled"} => http[t].req = "none")

\* C17 witness: both loops have ended and async_shutdown has stopped and
\* closed the session's client.
C17_Witness ==
    /\ shutdown.pc = "done"
    /\ LoopEnded(wd) /\ LoopEnded(rl)
    /\ mqtt.client # None /\ ~clients[mqtt.client].loop
    /\ clients[mqtt.client].conn = "closed"

\* A loop cancelled while it awaited its executor job: the job runs on.
C17_JobOutlivesLoop == LoopEnded(wd) /\ jobs["wd"].pc \in FrPcs

\* C18 as stated: while the nudge flag is set a tick sends no nudge, and a
\* stale tick that follows a tick which cleared the flag (silence below
\* the stale threshold, or a dead-threshold escalation) sends one
\* request-telemetry command per registered device again.
FlagClearedByLastTick == ~telemetry_requested /\ wd.log \in {"clear", "forcing reconnect"}
StaleTickStep ==
    /\ TickStep
    /\ mqtt.last_message_time # 0
    /\ now - mqtt.last_message_time >= _WATCHDOG_STALE_THRESHOLD
    /\ now - mqtt.last_message_time < _WATCHDOG_DEAD_THRESHOLD
C18_Original ==
    /\ [][TickStep /\ telemetry_requested => Nudges' = Nudges]_vars
    /\ [][StaleTickStep /\ FlagClearedByLastTick =>
            Nudges' = Nudges + Cardinality(DOMAIN dryer_data)]_vars

\* C19: no error ends a loop.  A watchdog tick that raises, in the tick
\* itself or in the token validation it awaits, leaves the loop asleep
\* until the check interval has passed, and the next tick is then ready to
\* run; a refresh iteration that raises leaves the loop in its 300 s
\* cooldown, after which it computes its next sleep; a loop is only ever
\* ended by the cancellation of async_shutdown.
Cancelled == {"cancelling", "cancelled"}
WdRaises == wd.pc \in {"sleep", "validate"} /\ wd'.exc # "" /\ wd' # wd /\ wd'.pc \notin Cancelled
RlRaises == rl.pc = "validate" /\ rl'.pc \notin {"validate", "job", "sleep"} \cup Cancelled
C19_ErrorsNeverEndALoop ==
    /\ [][WdRaises => wd'.pc = "sleep" /\ wd'.wake = now + _WATCHDOG_CHECK_INTERVAL]_vars
    /\ [](wd.pc = "sleep" /\ now >= wd.wake => ENABLED WdTick)
    /\ [][RlRaises => rl'.pc = "cooldown" /\ rl'.wake = now + REFRESH_COOLDOWN]_vars
    /\ [][rl.pc = "cooldown" /\ rl' # rl /\ rl'.pc \notin Cancelled
            => now >= rl.wake /\ rl'.pc = "sleep" /\ rl'.wake >= now + MIN_WAIT]_vars
    /\ [](rl.pc = "cooldown" /\ now >= rl.wake => ENABLED RlCooldownEnd)
    /\ [](setup.pc = "done" =>
            /\ wd.pc \in {"sleep", "validate", "job"} \cup Cancelled
            /\ rl.pc \in {"sleep", "validate", "job", "cooldown"} \cup Cancelled)
    /\ [](\A t \in {"wd", "rl"} : LoopPc(t) \in Cancelled => shutdown.pc # "idle")

\* C19 witness: the watchdog's validation has raised and the loop sleeps,
\* the refresh loop has raised and is through its cooldown, and nothing
\* has been cancelled.
C19_Witness ==
    /\ shutdown.pc = "idle"
    /\ wd.exc \in ValidationErrors /\ wd.pc = "sleep" /\ wd.wake = now + _WATCHDOG_CHECK_INTERVAL
    /\ rl.exc \in ValidationErrors /\ rl.pc = "sleep" /\ rl.log = "Error refreshing token"

\* The nudge tier has raised AttributeError and the loop sleeps on.
C19_AsleepAfterAttributeError ==
    wd.exc = "AttributeError" /\ wd.pc = "sleep" /\ wd.wake = now + _WATCHDOG_CHECK_INTERVAL

\* C20: for every refreshAfter - now, negative and beyond an hour included,
\* the refresh loop sleeps max(60, min(3600, (refreshAfter - now) - 60))
\* seconds, which lies between 60 and 3600.
SleepClaimed(delta) ==
    LET capped == IF delta - REFRESH_EARLY <= MAX_WAIT THEN delta - REFRESH_EARLY ELSE MAX_WAIT
    IN IF capped >= MIN_WAIT THEN capped ELSE MIN_WAIT
C20_SleepIsClamped ==
    rl.pc = "sleep" =>
      /\ rl.wake - now = SleepClaimed(api.refresh_after - now)
      /\ rl.wake - now >= MIN_WAIT /\ rl.wake - now <= MAX_WAIT

\* C20 witness: the loop sleeps 60 s on a refreshAfter that is in the past.
C20_Witness ==
    rl.pc = "sleep" /\ api.refresh_after < now /\ rl.wake = now + MIN_WAIT

\* The loop sleeps an hour on a refreshAfter beyond an hour, and
\* refreshAfter - now - 60 in between.
C20_CappedReached ==
    rl.pc = "sleep" /\ api.refresh_after - now > MAX_WAIT + REFRESH_EARLY /\ rl.wake = now + MAX_WAIT
C20_MiddleReached ==
    /\ rl.pc = "sleep" /\ rl.wake - now > MIN_WAIT /\ rl.wake - now < MAX_WAIT
    /\ rl.wake = api.refresh_after - REFRESH_EARLY

\* C21 as stated: with no error, the refresh loop obtains the new
\* credential before refreshAfter is reached: a wake-up within the last
\* minute before refreshAfter sends the refresh request, and no refresh
\* request of the loop is sent once refreshAfter has been reached.
RlWakeStep == rl.pc = "sleep" /\ rl' # rl /\ rl'.pc \notin Cancelled
RlRefreshSent == http["rl"].req = "none" /\ http'["rl"].req = "refresh"
C21_Original ==
    /\ [][RlWakeStep /\ now >= api.refresh_after - REFRESH_EARLY /\ now < api.refresh_after
            => RlRefreshSent]_vars
    /\ [][RlRefreshSent => now < api.refresh_after]_vars

\* C22: force_reconnect runs to its end from every session state.  It
\* stores the token it is given and keeps the session's token when given
\* none; it stops and closes the client the session holds before it creates
\* the next one; the one client it creates carries the session's token, is
\* the only live client when the call returns and has one connection
\* attempt in progress.
FrAt(pc) == jobs["wd"].pc = pc /\ jobs'["wd"].pc # pc
C22_ForceReconnectFromAnyState ==
    /\ [](jobs["wd"].pc \in FrPcs => ENABLED ForceReconnectStep("wd"))
    /\ [][FrAt("fr_token") =>
            mqtt'.access_token = IF jobs["wd"].new_token # None
                                 THEN jobs["wd"].new_token ELSE mqtt.access_token]_vars
    /\ [][jobs["wd"].pc \in FrPcs \ {"fr_token"} => mqtt'.access_token = mqtt.access_token]_vars
    /\ [][FrAt("fr_init") =>
            /\ LiveClients(clients) = {}
            /\ clients[mqtt.client].conn = "closed"
            /\ Len(clients') = Len(clients) + 1
            /\ mqtt'.client = Len(clients')
            /\ clients'[mqtt'.client].password = mqtt.access_token]_vars
    /\ [][jobs["wd"].pc \in FrPcs \ {"fr_init"} => Len(clients') = Len(clients)]_vars
    /\ [][FrAt("fr_start") =>
            /\ jobs'["wd"].pc = "done"
            /\ mqtt'.client = jobs["wd"].base + 1 /\ Len(clients') = jobs["wd"].base + 1
            /\ LiveClients(clients') = {mqtt'.client}
            /\ clients'[mqtt'.client].conn = "connecting"
            /\ clients'[mqtt'.client].password = mqtt'.access_token]_vars

\* C22 witness: force_reconnect was called without a token and has
\* returned: the first client is gone and the new one connects with the
\* token of the login.
C22_Witness ==
    /\ jobs["wd"].pc = "done" /\ jobs["wd"].new_token = None
    /\ Len(clients) = 2 /\ clients[1].conn = "freed"
    /\ Live(clients, 2) /\ clients[2].conn = "connecting"
    /\ clients[2].password = api.access_token

\* force_reconnect is called on a connected session, with a token that is
\* not the session's.
C22_FromConnected ==
    /\ jobs["wd"].pc = "fr_token" /\ clients[mqtt.client].conn = "connected"
    /\ jobs["wd"].new_token \notin {None, mqtt.access_token}

\* force_reconnect is called on a session whose handshake the broker has
\* rejected, and on one still connecting for the first time.
C22_FromClosed ==
    jobs["wd"].pc = "fr_token" /\ mqtt.client # None /\ clients[mqtt.client].conn = "closed"
C22_FromConnecting ==
    jobs["wd"].pc = "fr_token" /\ Len(clients) = 1 /\ clients[1].conn = "connecting"

\* C23 as stated: the set of registered dryers is never reduced, no
\* statement of force_reconnect changes it, and whenever the broker accepts
\* a handshake, the connection that was accepted holds the topics
\* telemetry, system and name-update of every registered dryer.
ConnectAccepted(c) == clients[c].conn = "connecting" /\ clients'[c].conn = "connected"
C23_Original ==
    /\ [][mqtt.subscribed_dryers \subseteq mqtt'.subscribed_dryers]_vars
    /\ [][(\E t \in Tasks : jobs[t].pc \in FrPcs /\ jobs'[t] # jobs[t])
            => mqtt'.subscribed_dryers = mqtt.subscribed_dryers]_vars
    /\ [][\A c \in DOMAIN clients : ConnectAccepted(c) =>
            clients'[c].subs = {DryerTopic(mqtt.customer_id, d, ty) :
                                  d \in mqtt.subscribed_dryers,
                                  ty \in {"telemetry", "system", "name-update"}}]_vars

\* C24 as stated: subscribe_dryer on a connected session subscribes the
\* dryer's three topics at once, so that whichever of the connect-success
\* callback and async_setup's subscribe calls comes first, a connected
\* session holds the topics of every listed dryer once setup is over.
TopicsOf(d) == {DryerTopic(mqtt.customer_id, d, ty) : ty \in {"telemetry", "system", "name-update"}}
SubscribeDryerStep(d) == d \notin mqtt.subscribed_dryers /\ d \in mqtt'.subscribed_dryers
C24_Original ==
    /\ [][\A d \in DeviceIds :
            SubscribeDryerStep(d) /\ mqtt.client # None /\ clients[mqtt.client].conn = "connected"
            => TopicsOf(d) \subseteq clients'[mqtt.client].subs]_vars
    /\ [](setup.pc = "done" /\ clients[mqtt.client].conn = "connected"
            => \A d \in DOMAIN dryer_data : TopicsOf(d) \subseteq clients[mqtt.client].subs)

\* C25 as stated: a rejected handshake closes the client for good and
\* starts the recovery task; the task sends one refresh request; when the
\* refresh (or its fallback login) succeeds, one force_reconnect is given
\* the refreshed token and the client it starts connects with that token;
\* the task ends without a reconnect only when no token was obtained.
Rejected(c) == clients[c].loop /\ clients[c].conn = "connecting" /\ clients'[c].conn = "closed"
NoInternalRetry ==
    [][\A c \in DOMAIN clients :
         /\ Rejected(c) /\ mqtt.on_connect_fail => cf'["cf"].pc = "scheduled"
         /\ clients[c].conn = "closed" => clients'[c].conn \in {"closed", "freed"}]_vars
OneRefresh ==
    /\ [][cf["cf"].pc = "scheduled" /\ cf' # cf =>
            /\ cf'["cf"].pc = "refresh"
            /\ http'["cf"] = [req |-> "refresh", refreshes |-> 1, logins |-> 0]]_vars
    /\ [](http["cf"].refreshes <= 1 /\ http["cf"].logins <= 1)
ReconnectWithRefreshed ==
    /\ [][cf["cf"].pc = "refresh" /\ cf'["cf"].pc = "job" =>
            /\ issued' = issued + 1
            /\ api'.access_token = issued'
            /\ jobs'["cf"].pc = "fr_token" /\ jobs'["cf"].calls = 1
            /\ jobs'["cf"].new_token = issued']_vars
    /\ [][jobs["cf"].pc = "fr_start" /\ jobs'["cf"].pc = "done" =>
            /\ Live(clients', mqtt'.client)
            /\ clients'[mqtt'.client].password = jobs["cf"].new_token]_vars
C25_Original ==
    /\ NoInternalRetry
    /\ OneRefresh
    /\ ReconnectWithRefreshed
    /\ [][cf["cf"].pc # "idle" /\ cf'["cf"].pc = "idle" =>
            \/ cf["cf"].pc = "job"
            \/ /\ cf["cf"].pc = "refresh" /\ http["cf"].req = "login"
               /\ cf'["cf"].log = "Failed to refresh token"]_vars

\* C26: the arrival of a frame of any kind sets the last-message clock to
\* the instant of the arrival, and no step ever moves the clock back.
FrameArrives == nframes' = nframes + 1
C26_EveryFrameResetsClock ==
    /\ [][FrameArrives => mqtt'.last_message_time = now]_vars
    /\ [][mqtt'.last_message_time >= mqtt.last_message_time]_vars
    /\ [](mqtt.last_message_time <= now)

\* C26 witness: two frames have arrived that left no trace but the clock,
\* the later one at least two clock steps after the connect.
C26_Witness ==
    /\ nframes = 2 /\ inbox = <<>>
    /\ \A d \in DOMAIN dryer_data : dryer_data[d] = EmptyDict /\ signals[d] = 0
    /\ now >= 3 * Quantum /\ mqtt.last_message_time = now
    /\ Len(clients) = 1

\* C27 as stated: a frame is handed to the router exactly if its body is
\* JSON and its topic is act/{customerId}/ed/{deviceId}/m/{messageType}
\* with an integer deviceId; any other frame is dropped; no frame changes
\* the connection.
MatchesPattern(f) ==
    /\ f.json_ok
    /\ Len(f.topic) = 6
    /\ f.topic[1] = "act" /\ f.topic[2] = StrOf(mqtt.customer_id)
    /\ f.topic[3] = "ed" /\ f.topic[4] \in {"7", "8", "42"} /\ f.topic[5] = "m"
C27_Original ==
    [][\A c \in DOMAIN clients, f \in AllFrames :
         OnMessage(c, f) =>
           /\ clients' = clients
           /\ inbox' = IF MatchesPattern(f)
                       THEN Append(inbox, [dryer_id |-> IntOf(f.topic[4]),
                                           msg_type |-> f.topic[6],
                                           payload |-> f.payload])
                       ELSE inbox]_vars

\* C28: a DeviceState record changes only in the step that handles a
\* telemetry, system or name-update message of a registered dryer; frames
\* that arrive, messages of an unknown kind or dryer, watchdog ticks, token
\* refreshes and the statements of a forced reconnect leave every record as
\* it is; once setup is over the set of records is fixed.
HandlesMergeable ==
    /\ inbox # <<>> /\ inbox' = Tail(inbox)
    /\ Head(inbox).dryer_id \in DOMAIN dryer_data
    /\ Head(inbox).msg_type \in {"telemetry", "system", "name-update"}
C28_StateChangesOnlyByRouter ==
    /\ [][dryer_data' # dryer_data => setup.pc = "subscribe" \/ HandlesMergeable]_vars
    /\ [][setup.pc = "done" => DOMAIN dryer_data' = DOMAIN dryer_data]_vars
    /\ [][inbox # <<>> /\ inbox' = Tail(inbox) /\ ~HandlesMergeable
            => dryer_data' = dryer_data]_vars
    /\ [][nframes' # nframes \/ wd' # wd \/ api' # api \/ jobs' # jobs \/ clients' # clients
            => dryer_data' = dryer_data]_vars

\* C28 witness: a telemetry message was merged, a message of an unknown
\* kind was handled, and the watchdog has forced a reconnect since: the
\* record holds the telemetry field and nothing else.
C28_Witness ==
    /\ nframes = 2 /\ inbox = <<>>
    /\ 7 \in DOMAIN dryer_data /\ dryer_data[7] = [temp |-> Scalar(10)]
    /\ signals[7] = 1
    /\ Len(clients) = 2 /\ wd.reset_at > 0

\* C29: the stored credential is replaced atomically: whenever a field of
\* it changes, all five fields are those of the one response just received,
\* and a login or refresh that fails changes none of them.
AuthCallFails ==
    \/ http["setup"].req # "none" /\ setup'.pc = "failed"
    \/ http["rl"].req # "none" /\ rl'.pc = "cooldown"
C29_Original ==
    /\ [][api' # api =>
            /\ issued' = issued + 1
            /\ api'.access_token = issued' /\ api'.refresh_token = issued'
            /\ api'.refresh_after \in {now + ttl : ttl \in TTLs}
            /\ api'.customer_id = Account.customerId
            /\ api'.user_id = Account.userId]_vars
    /\ [][AuthCallFails => api' = api]_vars

\* C30: a step taken on the transport's network thread (a frame arriving,
\* a handshake accepted or rejected, a connection dropping) writes none of
\* the last-message clock, the session token, the connection handle, the
\* nudge flag or the DeviceState records; it only queues work.
NetworkThreadStep ==
    \/ nframes' = nframes + 1
    \/ \E c \in DOMAIN clients :
         /\ c \in DOMAIN clients'
         /\ clients[c].loop
         /\ \/ clients[c].conn = "connecting" /\ clients'[c].conn \in {"connected", "closed"}
            \/ clients[c].conn = "connected" /\ clients'[c].conn = "connecting"
C30_Original ==
    [][NetworkThreadStep =>
         /\ mqtt' = mqtt
         /\ dryer_data' = dryer_data
         /\ telemetry_requested' = telemetry_requested
         /\ api' = api]_vars

\* C31: the messages of a device are merged in the order their frames
\* arrived: an arriving frame queues its message behind those waiting, the
\* message handled is the oldest one waiting, its merge and its notification
\* are one step that nothing interleaves, and after that step the record
\* holds what the message carried.
Reflected(msg) ==
    LET d == msg.dryer_id IN
    IF d \in DOMAIN dryer_data /\ msg.msg_type \in {"telemetry", "system", "name-update"}
    THEN /\ signals'[d] = signals[d] + 1
         /\ \A e \in DOMAIN dryer_data \ {d} : dryer_data'[e] = dryer_data[e]
         /\ msg.msg_type = "telemetry" =>
              \A k \in DOMAIN msg.payload :
                 k \in DOMAIN dryer_data'[d] /\ dryer_data'[d][k] = msg.payload[k]
         /\ msg.msg_type = "system" =>
              "system" \in DOMAIN dryer_data'[d] /\ dryer_data'[d]["system"] = msg.payload
         /\ msg.msg_type = "name-update" =>
              "name_update" \in DOMAIN dryer_data'[d]
                 /\ dryer_data'[d]["name_update"] = msg.payload
    ELSE signals' = signals /\ dryer_data' = dryer_data
C31_MergedInArrivalOrder ==
    /\ [][nframes' = nframes + 1 =>
            \/ inbox' = inbox
            \/ Len(inbox') = Len(inbox) + 1 /\ SubSeq(inbox', 1, Len(inbox)) = inbox]_vars
    /\ [][Len(inbox') < Len(inbox) => inbox' = Tail(inbox) /\ Reflected(Head(inbox))]_vars
    /\ [][(signals' # signals \/ dryer_data' # dryer_data) /\ setup.pc # "subscribe"
            => Len(inbox') < Len(inbox)]_vars

\* C31 witness: two telemetry frames of dryer 7 arrived, temp 10 before
\* temp 20; the first is merged and notified, the second still waits.
C31_Witness ==
    /\ inbox = <<[dryer_id |-> 7, msg_type |-> "telemetry", payload |-> [temp |-> Scalar(20)]]>>
    /\ 7 \in DOMAIN dryer_data /\ "temp" \in DOMAIN dryer_data[7]
    /\ dryer_data[7]["temp"] = Scalar(10)
    /\ signals[7] = 1 /\ nframes = 2

\* C32: two reconnects forced by the watchdog are at least 900 s apart:
\* the tick that decides on one finds 900 s without a frame, a successful
\* connect or an earlier forced reconnect, and the reconnect itself runs
\* no sooner than 900 s after the watchdog's previous one.
WdDecides == wd.pc = "sleep" /\ wd'.pc \in {"validate", "job"}
WdReconnects == jobs["wd"].pc = "fr_clock" /\ jobs'["wd"].pc = "fr_init"
C32_WatchdogReconnectsApart ==
    /\ [][WdDecides =>
            /\ now - mqtt.last_message_time >= 900
            /\ wd.reset_at # 0 => now - wd.reset_at >= 900]_vars
    /\ [][WdReconnects /\ wd.reset_at # 0 => now - wd.reset_at >= 900]_vars

\* C32 witness: the watchdog has forced a reconnect and is running the
\* clock reset of its next one.
C32_Witness ==
    /\ wd.reset_at # 0 /\ wd.pc = "job" /\ jobs["wd"].pc = "fr_init"
    /\ jobs["wd"].clock_at >= wd.reset_at + 900
    /\ Len(clients) = 2

\* C33: the watchdog tears a connection down only if no frame arrived on
\* it in the 900 s before: when its force_reconnect stops the client's
\* network loop, no frame has arrived since the tick read the last-message
\* clock and found it 900 s old.
WdTearsDown ==
    /\ jobs["wd"].pc = "fr_stop" /\ jobs'["wd"].pc = "fr_disc"
    /\ mqtt.client # None /\ clients[mqtt.client].loop
C33_Original ==
    [][WdTearsDown => wd.silence >= 900 /\ nframes = wd.frames]_vars

\* C34: whenever no request is awaited, no executor job runs and no
\* recovery is pending, the token of the session and the password of its
\* current client are the API client's current access token.
C34_Original ==
    setup.pc = "done" /\ Quiescent /\ mqtt.client # None =>
        /\ mqtt.access_token = api.access_token
        /\ clients[mqtt.client].password = api.access_token

\* C35: with a broker that rejects every handshake the recovery does not
\* cycle without bound between two watchdog ticks: before the watchdog's
\* first tick it has refreshed the token and reconnected at most twice.
RecoveryCycles == Len(clients) - 1
C35_Original ==
    now < wd.wake \/ wd.pc = "none" => RecoveryCycles <= 2

\* C36: every rejected handshake, also one that comes while async_setup
\* is still running, schedules the coordinator's connect-failure recovery.
C36_Original ==
    [][\A c \in DOMAIN clients : Rejected(c) => cf'["cf"].pc = "scheduled"]_vars

\* C37: once async_shutdown has returned, no client has a running network
\* loop, no client is created and no connection attempt is started.
C37_Original ==
    /\ [](shutdown.pc = "done" => \A c \in DOMAIN clients : ~clients[c].loop)
    /\ [][shutdown.pc = "done" =>
            /\ Len(clients') = Len(clients)
            /\ \A c \in DOMAIN clients :
                 clients'[c].conn = "connecting" => clients[c].conn = "connecting"]_vars
====
